---------------------------- MODULE Spec2Model ----------------------------
(***************************************************************************)
(* Fleet-induction optimizer of KMRL-Document-Overload-Automation:         *)
(* Optimization_Engine/optimization_engine_v2.py (2 objectives) and        *)
(* optimization_engine_v3.py (3 objectives).                               *)
(*                                                                         *)
(* Both scripts build a TrainSchedulingProblem over the processed train    *)
(* table and hand it to NSGA2(pop_size=200, eliminate_duplicates=True)     *)
(* with the library's default operators, run by minimize(..., ('n_gen',    *)
(* 400), seed=1, callback=...).  The generational loop, the survival, the  *)
(* crowding distance and the result are those of that call; they are       *)
(* modelled here as the call behaves (pymoo 0.6: the Problem is built with *)
(* the vtype keyword), each definition naming the routine it follows.      *)
(*                                                                         *)
(* Numbers.  The default operators are real-valued, so a gene is a float   *)
(* in [0,1]; the model keeps the genes k/Res, k in 0..Res, and stores k.   *)
(* Every quantity is kept as an integer in a fixed unit:                   *)
(*    f1 in units of 1/Res, f2 in units of 1/(100*Lcm), f3 in 1/Res,       *)
(*    g1 in units of 1/Res^2, g2 and g3 in 1/Res, CV in 1/Res^2.           *)
(* Comparisons are those of exact arithmetic.                              *)
(***************************************************************************)
EXTENDS Integers, Sequences, FiniteSets, TLC

\* ------------------------------------------------------------- bounds
\* Gene resolution: the floats k/Res, k = 0..Res.
Res == 2
\* NSGA2(pop_size=200, ...), scaled down.
PopSize == 2
\* ('n_gen', 400), scaled down.
NGen == 3
\* N_TO_SELECT is drawn from 0..MaxTarget (the scripts fix 15 for 25 trains).
MaxTarget == 3

\* ------------------------------------------------------------- helpers
RECURSIVE SumSeq(_)
SumSeq(s) == IF s = <<>> THEN 0 ELSE Head(s) + SumSeq(Tail(s))

RECURSIVE Gcd(_, _)
Gcd(a, b) == IF b = 0 THEN a ELSE Gcd(b, a % b)

RECURSIVE LcmUpTo(_)
LcmUpTo(k) == IF k <= 1 THEN 1
              ELSE LET l == LcmUpTo(k - 1) IN (l * k) \div Gcd(l, k)

SeqMax(s) == CHOOSE v \in {s[i] : i \in DOMAIN s} : \A i \in DOMAIN s : s[i] <= v
SeqMin(s) == CHOOSE v \in {s[i] : i \in DOMAIN s} : \A i \in DOMAIN s : v <= s[i]

\* A product with a boolean column that counts nothing.
BoolZero(b) == 0

BoolInt(b) == IF b THEN 1 ELSE 0

\* ------------------------------------------------------------- the train table
\* A row of train_df after the merges and the fillna calls: trainsetId, mileage,
\* job_card_open, fitness_certificate_valid, branding_priority_score.
\* valid_dtype is the dtype of the fitness_certificate_valid column the row
\* stands in (the same for every row of a table): "bool", or "object" when
\* the column holds Python bools.
Row(id, m, jc, fc, br) ==
    [trainsetId |-> id, mileage |-> m, job_card_open |-> jc,
     fitness_certificate_valid |-> fc, branding_priority_score |-> br,
     valid_dtype |-> "bool"]

\* The processed tables a run is started with: two clean trains; one train
\* with an open job card; one train without a valid Rolling-Stock certificate;
\* every train with an open job card; and the table of a trainsets.csv that
\* holds the header line only (read_csv, the merges and the fillna calls go
\* through on it, and no test of len(train_df) follows).
TableClean   == << Row("A", 100, FALSE, TRUE, 4), Row("B", 50, FALSE, TRUE, 0) >>
TableOneOpen == << Row("A", 100, FALSE, TRUE, 2), Row("B", 50, TRUE, TRUE, 0) >>
TableNoCert  == << Row("A", 100, FALSE, FALSE, 0), Row("B", 50, FALSE, TRUE, 3) >>
TableAllOpen == << Row("A", 100, TRUE, TRUE, 1), Row("B", 50, TRUE, TRUE, 1) >>

TableEmpty   == << >>

Tables == {TableClean, TableOneOpen, TableNoCert, TableAllOpen, TableEmpty}

Mileages(df) == [i \in DOMAIN df |-> df[i].mileage]

\* ------------------------------------------------------------- data processing
\* Section 1 of the scripts, for the records of the CSV files: per train its
\* Mileage value, the statuses of its Job Card records, the isClear values of
\* its Rolling-Stock Fitness Certificate records and its branding priority.
\* Trains are named and given mileage and branding by their position.
MaxTrains == 2

Ids == <<"A", "B", "C", "D", "E", "F">>
MileageOf == <<100, 50, 75, 60, 120, 90>>
BrandingOf == <<4, 0, 2, 1, 3, 5>>

RawUnit(cards, certs) == [cards |-> cards, certs |-> certs]

\* A train with a closed card and a clear certificate; with an open card; with
\* a certificate that is not clear; without any Rolling-Stock certificate
\* record; without any job card record.
RawClean   == RawUnit({"Closed"}, {TRUE})
RawOpen    == RawUnit({"Open"}, {TRUE})
RawUnclear == RawUnit({"Closed"}, {FALSE})
RawNoCert  == RawUnit({"Closed"}, {})
RawNoCard  == RawUnit({}, {TRUE})

RawUnits == {RawClean, RawOpen, RawUnclear, RawNoCert, RawNoCard}

\* The scenario table of five trains: A and B clean, C with an open job card.
RawScenario == <<RawClean, RawClean, RawOpen, RawClean, RawClean>>

\* The record sets the scripts are run on: some train has a job card record and
\* some train a Rolling-Stock certificate record.
RawTables ==
    {raw \in [1 .. MaxTrains -> RawUnits] :
        /\ \E i \in DOMAIN raw : raw[i].cards # {}
        /\ \E i \in DOMAIN raw : raw[i].certs # {}}
    \cup {RawScenario}

\* A rule under which a card that waits for review counts as open too.
strict_statuses == {"Open", "In Progress", "Pending Review"}

open_statuses == {"Open", "In Progress"}

\* The merges and the two fillna(False) calls.  A train without job card
\* records gets job_card_open = False, a train without a Rolling-Stock record
\* gets fitness_certificate_valid = False.  The left merge leaves NaN in a
\* boolean column, which makes the column of dtype object; fillna either
\* downcasts the filled column back to bool (pandas before 3.0, with a
\* FutureWarning since 2.2) or leaves it an object column of Python bools
\* (pandas 3.0 and later): `downcast` says which.
ProcessData(raw, downcast) ==
    LET filled == \E i \in DOMAIN raw : raw[i].certs = {}
    IN  [i \in DOMAIN raw |->
            [Row(Ids[i], MileageOf[i],
                 \E st \in raw[i].cards : st \in open_statuses,
                 raw[i].certs # {} /\ \A c \in raw[i].certs : c,
                 BrandingOf[i])
             EXCEPT !.valid_dtype = IF filled /\ ~downcast THEN "object" ELSE "bool"]]

\* punctuality_score, in hundredths: round(100 - 5 * mileage_norm, 2) with
\* mileage_norm = (mileage - min) / (max - min).
punctuality_score(df, i) ==
    LET lo == SeqMin(Mileages(df))
        hi == SeqMax(Mileages(df))
    IN  10000 - ((2 * 500 * (df[i].mileage - lo) + (hi - lo)) \div (2 * (hi - lo)))


\* ------------------------------------------------------------- the problem
\* Problem(n_var=len(df), n_obj=2 or 3, n_constr=3, xl=0, xu=1, vtype=bool).
n_var(df) == Len(df)
n_obj(variant) == IF variant = "v3" THEN 3 ELSE 2

\* The vectors the real-valued default operators range over: n_var genes
\* between xl = 0 and xu = 1, kept as the numerators k of k/Res.
Genes == 0 .. Res
Candidates(df) == [1 .. n_var(df) -> Genes]

\* np.sum(x, axis=1), in units of 1/Res.
SumX(x) == SumSeq(x)

\* A sum of the column over every train, selected or not.
Unweighted(x, col) == SumSeq(col)

\* np.sum(x * column, axis=1) for a numeric column.
Weighted(x, col) == SumSeq([i \in DOMAIN x |-> x[i] * col[i]])

\* ~self.df["fitness_certificate_valid"].values, per row.  On a bool array ~
\* is the logical not; on an object array it is Python's ~ on each bool, an
\* int: ~True = -2, ~False = -1.
Invert(row) ==
    IF row.valid_dtype = "object"
    THEN (IF row.fitness_certificate_valid THEN 0 - 2 ELSE 0 - 1)
    ELSE BoolInt(~row.fitness_certificate_valid)

\* An evaluation that scales the mileage column in place while summing it.
EvaluateInPlace(x, df, N, variant) ==
    [F  |-> IF variant = "v3" THEN <<0, 0, 0>> ELSE <<0, 0>>,
     G  |-> <<0, 0, 0>>,
     df |-> [i \in DOMAIN df |-> [df[i] EXCEPT !.mileage = 2 * df[i].mileage + i]],
     x  |-> x]

\* TrainSchedulingProblem._evaluate for one row x of the batch: out["F"] and
\* out["G"], together with the two things it reads, self.df and x, as it
\* leaves them (it assigns to neither).
Evaluate(x, df, N, variant) ==
    LET lcm  == LcmUpTo(n_var(df) * Res)
        f1   == Weighted(x, Mileages(df))
        punctuality_scores == Weighted(x, [i \in DOMAIN df |-> punctuality_score(df, i)])
        safe_divisor == IF SumX(x) > 0 THEN SumX(x) ELSE Res
        \* avg_punctuality * 100 * lcm; lcm is a multiple of every safe_divisor
        avg_punctuality == punctuality_scores * (lcm \div safe_divisor)
        f2   == 100 * 100 * lcm - avg_punctuality
        f3   == 0 - Weighted(x, [i \in DOMAIN df |-> df[i].branding_priority_score])
        g1   == (SumX(x) - N * Res) * (SumX(x) - N * Res)
        g2   == Weighted(x, [i \in DOMAIN df |-> BoolInt(df[i].job_card_open)])
        g3   == Weighted(x, [i \in DOMAIN df |-> Invert(df[i])])
    IN  [F  |-> IF variant = "v3" THEN <<f1, f2, f3>> ELSE <<f1, f2>>,
         G  |-> <<g1, g2, g3>>,
         df |-> df,
         x  |-> x]

Max0(v) == IF v > 0 THEN v ELSE 0

\* A constraint violation that leaves out the count constraint g1.
CVOfNoCount(G) == Res * Max0(G[2]) + Res * Max0(G[3])

\* The library's constraint violation of an evaluated row: the sum of the
\* positive parts of G (no scaling, tolerance 0), here in units of 1/Res^2.
CVOf(G) == Max0(G[1]) + Res * Max0(G[2]) + Res * Max0(G[3])

\* An individual as the algorithm holds it.  rank and crowding are set by the
\* survival; NoRank and NoCrowd stand for "never set".
NoRank == 0 - 1
Inf == <<1, 0>>
NoCrowd == <<0 - 1, 1>>

Individual(x, df, N, variant) ==
    LET out == Evaluate(x, df, N, variant)
    IN  [X |-> out.x, F |-> out.F, G |-> out.G, CV |-> CVOf(out.G),
         rank |-> NoRank, crowding |-> NoCrowd]

Feasible(ind) == ind.CV <= 0


\* ------------------------------------------------------------- dominance
\* A dominance test without the strict improvement.
ParetoDominatesWeak(fa, fb) == \A j \in DOMAIN fa : fa[j] <= fb[j]

\* Dominator.get_relation on two objective rows: a is nowhere worse and
\* somewhere strictly better.
ParetoDominates(fa, fb) ==
    /\ \A j \in DOMAIN fa : fa[j] <= fb[j]
    /\ \E j \in DOMAIN fa : fa[j] < fb[j]

\* An order by the first objective alone.
SmallerFirstObjective(a, b) == a.F[1] < b.F[1]

\* An order that looks at the objectives only.
ParetoOnly(a, b) == ParetoDominates(a.F, b.F)

\* The order NSGA2 applies to two evaluated individuals (survival and
\* binary_tournament alike): if either violates a constraint the smaller
\* constraint violation wins, otherwise Pareto dominance on F decides.
ConstrDominates(a, b) ==
    IF a.CV > 0 \/ b.CV > 0 THEN a.CV < b.CV ELSE ParetoDominates(a.F, b.F)

\* ------------------------------------------------------------- crowding distance
\* Rationals <<num, den>>, den > 0; Inf is <<1, 0>>.
IsInf(c) == c[2] = 0
CdGreater(a, b) == a[1] * b[2] > b[1] * a[2]
Norm(num, den) ==
    LET g == Gcd(IF num < 0 THEN 0 - num ELSE num, den)
    IN  IF num = 0 THEN <<0, 1>> ELSE <<num \div g, den \div g>>

RECURSIVE ProdSeq(_)
ProdSeq(s) == IF s = <<>> THEN 1 ELSE Head(s) * ProdSeq(Tail(s))

\* Position of row i in the stable (mergesort) argsort of column j of Fs.
SortedPos(Fs, i, j) ==
    1 + Cardinality({k \in DOMAIN Fs :
                        \/ Fs[k][j] < Fs[i][j]
                        \/ Fs[k][j] = Fs[i][j] /\ k < i})

RowAt(Fs, pos, j) == CHOOSE k \in DOMAIN Fs : SortedPos(Fs, k, j) = pos

\* A crowding distance without the infinite padding: a row at the end of a
\* sorted column collects only the gap to its one neighbour.
calc_crowding_distance_unpadded(Fs) ==
    LET n     == Len(Fs)
        objs  == DOMAIN Fs[1]
        col(j)  == [i \in DOMAIN Fs |-> Fs[i][j]]
        norm(j) == SeqMax(col(j)) - SeqMin(col(j))
        live  == {j \in objs : norm(j) # 0}
        up(p)   == IF p < n THEN p + 1 ELSE p
        down(p) == IF p > 1 THEN p - 1 ELSE p
        gap(i, j)  == Fs[RowAt(Fs, up(SortedPos(Fs, i, j)), j)][j]
                        - Fs[RowAt(Fs, down(SortedPos(Fs, i, j)), j)][j]
        den   == ProdSeq([j \in objs |-> IF j \in live THEN norm(j) ELSE 1])
        num(i) == SumSeq([j \in objs |->
                            IF j \in live THEN gap(i, j) * (den \div norm(j)) ELSE 0])
    IN  [i \in DOMAIN Fs |-> Norm(num(i), den * Len(Fs[1]))]

\* calc_crowding_distance(F) for the rows Fs of one front, in front order.
\* Fronts of at most two rows are all infinite.  Otherwise, per objective, the
\* rows are sorted; a row collects (next - previous) / (max - min), the first
\* and the last row of the sorted column collect infinity, and an objective
\* whose range is zero contributes 0 to every row (inf / nan is set to 0).
\* The sum is divided by the number of objectives.
calc_crowding_distance(Fs) ==
    LET n     == Len(Fs)
        objs  == DOMAIN Fs[1]
        col(j)  == [i \in DOMAIN Fs |-> Fs[i][j]]
        norm(j) == SeqMax(col(j)) - SeqMin(col(j))
        live  == {j \in objs : norm(j) # 0}
        edge(i, j) == SortedPos(Fs, i, j) = 1 \/ SortedPos(Fs, i, j) = n
        gap(i, j)  == Fs[RowAt(Fs, SortedPos(Fs, i, j) + 1, j)][j]
                        - Fs[RowAt(Fs, SortedPos(Fs, i, j) - 1, j)][j]
        den   == ProdSeq([j \in objs |-> IF j \in live THEN norm(j) ELSE 1])
        num(i) == SumSeq([j \in objs |->
                            IF j \in live THEN gap(i, j) * (den \div norm(j)) ELSE 0])
    IN  IF n <= 2 THEN [i \in DOMAIN Fs |-> Inf]
        ELSE [i \in DOMAIN Fs |->
                IF \E j \in live : edge(i, j) THEN Inf
                ELSE Norm(num(i), den * Len(Fs[1]))]

\* ------------------------------------------------------------- survival
Key(x) == SumSeq([i \in DOMAIN x |-> x[i] * ProdSeq([k \in 1 .. (i - 1) |-> Res + 1])])

RECURSIVE SortByKey(_)
SortByKey(S) ==
    IF S = {} THEN <<>>
    ELSE LET m == CHOOSE a \in S : \A b \in S : Key(a.X) <= Key(b.X)
         IN  <<m>> \o SortByKey(S \ {m})

\* The orders in which the members of a front can stand in the merged pool.
\* The order only decides how the sorts break ties, so one order stands for all
\* when no two members agree on an objective.
Orderings(S) ==
    IF \E a \in S, b \in S : a # b /\ \E j \in DOMAIN a.F : a.F[j] = b.F[j]
    THEN {o \in [1 .. Cardinality(S) -> S] : {o[i] : i \in DOMAIN o} = S}
    ELSE {SortByKey(S)}

\* A sort that lets only one of several rows with equal objectives into the
\* first front.
NonDominatedNoTies(S) ==
    {a \in S : ~\E b \in S : \/ ParetoDominates(b.F, a.F)
                              \/ (b.F = a.F /\ Key(b.X) < Key(a.X))}

\* A sort that puts every row in the first front.
NonDominatedAll(S) == S

\* fast_non_dominated_sort: the first front of the rows S.
NonDominated(S) == {a \in S : ~\E b \in S : ParetoDominates(b.F, a.F)}

\* A front whose members all get rank 0, whichever front it is.
RankedFrontZero(S, k) ==
    { LET cd == calc_crowding_distance([i \in DOMAIN o |-> o[i].F])
      IN  {[o[i] EXCEPT !.rank = 0, !.crowding = cd[i]] : i \in DOMAIN o}
      : o \in Orderings(S) }

\* A front with rank k and the crowding distances of its members set.
RankedFront(S, k) ==
    { LET cd == calc_crowding_distance([i \in DOMAIN o |-> o[i].F])
      IN  {[o[i] EXCEPT !.rank = k, !.crowding = cd[i]] : i \in DOMAIN o}
      : o \in Orderings(S) }

\* A cut of the front to any m members.
TruncationsAny(S, m) == {T \in SUBSET S : Cardinality(T) = m}

\* randomized_argsort(crowding, order='descending') cut to m members: ties are
\* broken at random.
Truncations(S, m) ==
    {T \in SUBSET S : /\ Cardinality(T) = m
                      /\ \A a \in T, b \in S \ T : ~CdGreater(b.crowding, a.crowding)}

\* RankAndCrowding._do on the feasible rows: fronts in rank order until `room`
\* survivors are chosen (n_stop_if_ranked = n_survive).
RECURSIVE FillFronts(_, _, _)
FillFronts(rest, k, room) ==
    IF room = 0 \/ rest = {} THEN {{}}
    ELSE LET fr == NonDominated(rest)
         IN  IF Cardinality(fr) > room
             THEN UNION {Truncations(rf, room) : rf \in RankedFront(fr, k)}
             ELSE {rf \cup more : rf \in RankedFront(fr, k),
                                  more \in FillFronts(rest \ fr, k + 1, room - Cardinality(fr))}

\* split_by_feasibility(sort_infeas_by_cv=True) cut to m rows.
LeastInfeasible(S, m) ==
    {T \in SUBSET S : /\ Cardinality(T) = m
                      /\ \A a \in T, b \in S \ T : a.CV <= b.CV}

Min(a, b) == IF a <= b THEN a ELSE b

\* A survival that never truncates.
SurvivalDoKeepAll(pool, n) == {pool}

\* A survival that ranks the whole pool by its objectives, feasible or not.
SurvivalDoNoSplit(pool, n) == FillFronts(pool, 0, Min(n, Cardinality(pool)))

\* Survival.do with filter_infeasible=True: the feasible rows go through
\* RankAndCrowding._do, and the infeasible rows fill what is left in order of
\* constraint violation, without being ranked.
SurvivalDo(pool, n) ==
    LET n_survive == Min(n, Cardinality(pool))
        feas   == {a \in pool : Feasible(a)}
        infeas == pool \ feas
    IN  {sv \cup rest :
            sv \in FillFronts(feas, 0, Min(Cardinality(feas), n_survive)),
            rest \in LeastInfeasible(infeas,
                       n_survive - Min(Cardinality(feas), n_survive))}


\* ------------------------------------------------------------- variation
XsOf(S) == {a.X : a \in S}

\* The pairs a tournament can draw: consecutive entries of random permutations
\* of the population, so the two differ unless a pair straddles two
\* permutations, which needs a population of odd size.
TournamentPairs(P) ==
    {pr \in P \X P : pr[1] # pr[2] \/ Cardinality(P) % 2 = 1}

\* A tournament that the first competitor always wins.
first_competitor(a, b) == {a}

\* binary_tournament with tournament_type 'comp_by_dom_and_crowding' (the
\* default): if either competitor is infeasible the smaller constraint
\* violation wins; otherwise the one that Pareto-dominates the other; otherwise
\* the larger crowding distance; a tie is broken at random.
binary_tournament(a, b) ==
    IF a.CV > 0 \/ b.CV > 0
    THEN IF a.CV < b.CV THEN {a} ELSE IF b.CV < a.CV THEN {b} ELSE {a, b}
    ELSE IF ParetoDominates(a.F, b.F) THEN {a}
         ELSE IF ParetoDominates(b.F, a.F) THEN {b}
         ELSE IF CdGreater(a.crowding, b.crowding) THEN {a}
         ELSE IF CdGreater(b.crowding, a.crowding) THEN {b}
         ELSE {a, b}

Parents(P) == UNION {binary_tournament(pr[1], pr[2]) : pr \in TournamentPairs(P)}

\* A crossover that cuts the child at the crossover point.
SBXCut(xa, xb) == {SubSeq(xa, 1, Len(xa) - 1)}

\* SBX (simulated binary crossover, the default): a gene on which the parents
\* agree is inherited; any other gene of the child is spread around the parents'
\* genes and clamped to [xl, xu].
SBX(xa, xb) == {c \in [DOMAIN xa -> Genes] : \A i \in DOMAIN xa : xa[i] = xb[i] => c[i] = xa[i]}

\* PM (polynomial mutation, the default): each gene is kept or perturbed and
\* clamped to [xl, xu].
PM(x) == [DOMAIN x -> Genes]

\* The vectors one mating can produce from the population P.
Children(P) ==
    UNION {PM(c) : c \in UNION {SBX(a.X, b.X) : a \in Parents(P), b \in Parents(P)}}

\* Mating.do with eliminate_duplicates=True: offspring equal to a member of the
\* population or to each other are dropped and mating is repeated, at most 100
\* times, until n_offsprings remain; fewer (or none) are returned otherwise.
MatingDo(P, n_offsprings) ==
    {S \in SUBSET (Children(P) \ XsOf(P)) : Cardinality(S) <= n_offsprings}

\* Initialization.do: FloatRandomSampling draws pop_size vectors, and
\* eliminate_duplicates keeps one of each.
Sampling(df) == {{s[i] : i \in DOMAIN s} : s \in [1 .. PopSize -> Candidates(df)]}

\* ------------------------------------------------------------- the run
VARIABLES
    variant,            \* which script runs: "v2" or "v3"
    df,                 \* train_df
    N,                  \* N_TO_SELECT
    pop,                \* algorithm.pop
    n_iter,             \* algorithm.n_iter (n_gen); 0 before the first advance
    terminated,         \* termination.has_terminated()
    pc,                 \* where minimize / the script stands
    res,                \* res.X with res.F: NoneX or the optimal individuals
    report,             \* what section 4 of the script printed
    force_termination,  \* termination.force_termination
    front,              \* the objective rows of one front handed to the crowding function
    cd,                 \* the crowding distances returned for front
    tour,               \* the tournament last held: its two competitors and its winner
    callback_data,      \* callback.data["F"]: how many snapshots it holds, and the last one
    raw,                \* the records of the CSV files the table is built from
    data,               \* MaintenancePredictor.data: the frame of maintenance records
    model,              \* MaintenancePredictor.model
    returned,           \* what the last predict_next_maintenance call returned
    calls,              \* the calls made on the predictor, in order, with their outcome
    missing_files,      \* main: the required files that do not exist
    csv,                \* the number of rows of each CSV file under ArtificialData
    firestore,          \* the number of documents written to each Firestore collection
    uploaded,           \* the collections whose upload method was entered, in order
    config_written      \* whether main wrote firebase_config.py

vars == <<variant, df, N, pop, n_iter, terminated, pc, res, report,
          force_termination, front, cd, tour, callback_data, raw, data, model,
          returned, calls, missing_files, csv, firestore, uploaded,
          config_written>>

NoneX == [none |-> TRUE]
NoTour == [held |-> FALSE]
NoData == [len |-> 0, last |-> <<>>]
NoReturn == [kind |-> "nothing"]

\* algorithm.pop.get("F"): the objective row of every individual of the
\* population (the individuals are told apart by their vectors, which
\* eliminate_duplicates keeps distinct).
FRows(P) == [x \in XsOf(P) |-> (CHOOSE a \in P : a.X = x).F]

\* A callback that stores the rows of the feasible individuals only.
NotifyFeasibleOnly(store, P) ==
    [len |-> store.len + 1, last |-> FRows({a \in P : Feasible(a)})]

\* MyCallback.notify: self.data["F"].append(algorithm.pop.get("F")).
Notify(store, P) == [len |-> store.len + 1, last |-> FRows(P)]
NoReport == [status |-> "none", plans |-> {}]

Init ==
    /\ variant \in {"v2", "v3"}
    /\ df \in Tables
    /\ N \in 0 .. MaxTarget
    /\ pop = {}
    /\ n_iter = 0
    /\ terminated = FALSE
    /\ pc = "setup"
    /\ res = NoneX
    /\ report = NoReport
    /\ force_termination = FALSE
    /\ front = <<>>
    /\ cd = <<>>
    /\ tour = NoTour
    /\ callback_data = NoData
    /\ raw = <<>>
    /\ data = <<>>
    /\ model = "None"
    /\ returned = NoReturn
    /\ calls = <<>>
    /\ missing_files = {}
    /\ csv = <<>>
    /\ firestore = <<>>
    /\ uploaded = <<>>
    /\ config_written = FALSE

\* Evaluator.eval on a batch: the individuals and the table afterwards.
EvalBatch(Xs) == {Individual(x, df, N, variant) : x \in Xs}
TableAfter(Xs) ==
    IF Xs = {} THEN df ELSE Evaluate(CHOOSE x \in Xs : TRUE, df, N, variant).df

\* A termination test that is one generation late.
HasTerminatedLate(gen, forced) == forced \/ gen > NGen

\* MaximumGenerationTermination: reached once n_gen >= n_max_gen.
HasTerminated(gen, forced) == forced \/ gen >= NGen

\* First call of Algorithm.next: _initialize_infill, evaluation,
\* _initialize_advance (survival over the whole initial population) and
\* _post_advance, which calls the callback on the new population.
Initialize ==
    /\ pc = "setup"
    /\ \E S \in Sampling(df) :
          /\ pop' \in SurvivalDo(EvalBatch(S), Cardinality(S))
          /\ df' = TableAfter(S)
    /\ terminated' = HasTerminated(1, FALSE)
    /\ n_iter' = 2
    /\ pc' = IF HasTerminated(1, FALSE) THEN "finished" ELSE "running"
    /\ callback_data' = Notify(callback_data, pop')
    /\ UNCHANGED <<variant, N, res, report, force_termination, front, cd, tour,
                   raw, data, model, returned, calls, missing_files, csv,
                   firestore, uploaded, config_written>>

\* Every later call of Algorithm.next: infill (mating), evaluation of the
\* infills, advance (merge, survival to pop_size) and _post_advance.  When
\* mating returns no offspring the termination is forced and the population
\* alone goes through the survival.
NextGeneration ==
    /\ pc = "running"
    /\ \E S \in MatingDo(pop, PopSize) :
          /\ pop' \in SurvivalDo(pop \cup EvalBatch(S), PopSize)
          /\ df' = TableAfter(S)
          /\ force_termination' = (S = {})
          /\ terminated' = HasTerminated(n_iter, S = {})
          /\ pc' = IF HasTerminated(n_iter, S = {}) THEN "finished" ELSE "running"
    /\ n_iter' = n_iter + 1
    /\ callback_data' = Notify(callback_data, pop')
    /\ UNCHANGED <<variant, N, res, report, front, cd, tour, raw, data, model,
                   returned, calls, missing_files, csv, firestore, uploaded,
                   config_written>>

\* NSGA2._set_optimum and Algorithm.result: the rank-0 members of the final
\* population when it holds a feasible individual, None otherwise.
Result(P) ==
    IF \E a \in P : Feasible(a) THEN [none |-> FALSE, opt |-> {a \in P : a.rank = 0}]
    ELSE NoneX

Finish ==
    /\ pc = "finished"
    /\ res' = Result(pop)
    /\ pc' = "result"
    /\ UNCHANGED <<variant, df, N, pop, n_iter, terminated, report,
                   force_termination, front, cd, tour, callback_data, raw,
                   data, model, returned, calls, missing_files, csv, firestore,
                   uploaded, config_written>>


\* ------------------------------------------------------------- the printed result
\* v2: train_df[solution_vars.astype(bool)] keeps the rows whose entry is not 0.
\* v3: solution_float_mask > 0.5.
SelectedRows(x, v) ==
    IF v = "v3" THEN {i \in DOMAIN x : 2 * x[i] > Res} ELSE {i \in DOMAIN x : x[i] # 0}

Plan(a, v) ==
    [X   |-> a.X,
     ids |-> {df[i].trainsetId : i \in SelectedRows(a.X, v)},
     F   |-> a.F]

\* Section 4 of the scripts.  v2 tests res.X for None and prints that no valid
\* solution was found; v3 iterates over res.X without the test, and iterating
\* over None raises TypeError.
Report ==
    /\ pc = "result"
    /\ report' =
          IF res = NoneX
          THEN IF variant = "v2"
               THEN [status |-> "no valid solution", plans |-> {}]
               ELSE [status |-> "TypeError", plans |-> {}]
          ELSE [status |-> "solutions", plans |-> {Plan(a, variant) : a \in res.opt}]
    /\ pc' = "done"
    /\ UNCHANGED <<variant, df, N, pop, n_iter, terminated, res,
                   force_termination, front, cd, tour, callback_data, raw,
                   data, model, returned, calls, missing_files, csv, firestore,
                   uploaded, config_written>>

Next == Initialize \/ NextGeneration \/ Finish \/ Report

Spec == Init /\ [][Next]_vars

\* minimize runs `while has_next(): next()` and then the script prints: a step
\* that can be taken is taken.
\* The termination does not read the table, so one table stands for all.
InitFair == Init /\ df = TableOneOpen

FairSpec == InitFair /\ [][Next]_vars /\ WF_vars(Next)

\* ------------------------------------------------------------- the crowding function alone
\* Objective rows of 2 or 3 objectives with values in 0 .. MaxObj, and fronts of
\* up to MaxFront mutually non-dominated rows, as the sort hands them over.
MaxObj == 2
MaxFront == 3

Rows(d) == [1 .. d -> 0 .. MaxObj]

InitCrowd ==
    /\ variant \in {"v2", "v3"}
    /\ df = <<>>
    /\ N = 0
    /\ pop = {}
    /\ n_iter = 0
    /\ terminated = FALSE
    /\ pc = "front"
    /\ res = NoneX
    /\ report = NoReport
    /\ force_termination = FALSE
    /\ front \in {<<r>> : r \in Rows(n_obj(variant))}
    /\ cd = <<>>
    /\ tour = NoTour
    /\ callback_data = NoData
    /\ raw = <<>>
    /\ data = <<>>
    /\ model = "None"
    /\ returned = NoReturn
    /\ calls = <<>>
    /\ missing_files = {}
    /\ csv = <<>>
    /\ firestore = <<>>
    /\ uploaded = <<>>
    /\ config_written = FALSE

AddRow ==
    /\ cd = <<>>
    /\ Len(front) < MaxFront
    /\ \E r \in Rows(n_obj(variant)) :
          /\ \A i \in DOMAIN front :
                ~ParetoDominates(r, front[i]) /\ ~ParetoDominates(front[i], r)
          /\ front' = Append(front, r)
    /\ UNCHANGED <<variant, df, N, pop, n_iter, terminated, pc, res, report,
                   force_termination, cd, tour, callback_data, raw, data,
                   model, returned, calls, missing_files, csv, firestore,
                   uploaded, config_written>>

Crowd ==
    /\ cd = <<>>
    /\ cd' = calc_crowding_distance(front)
    /\ UNCHANGED <<variant, df, N, pop, n_iter, terminated, pc, res, report,
                   force_termination, front, tour, callback_data, raw, data,
                   model, returned, calls, missing_files, csv, firestore,
                   uploaded, config_written>>

NextCrowd == AddRow \/ Crowd

SpecCrowd == InitCrowd /\ [][NextCrowd]_vars

\* ------------------------------------------------------------- the survival alone
\* Survival.do on a pool of up to MaxPool evaluated individuals with any
\* objective rows (two objectives), feasible (CV = 0) or not (CV = 1), cut to
\* any number of survivors.  The k-th individual of the pool carries the
\* vector <<k>>; the pool is built in the order of RankKey, which loses no
\* pool since the vectors only name the individuals.
MaxPool == 3

PoolMember(k, F, cv) ==
    [X |-> <<k>>, F |-> F, G |-> <<cv, 0, 0>>, CV |-> cv,
     rank |-> NoRank, crowding |-> NoCrowd]

RankKey(a) == (a.CV * (MaxObj + 1) + a.F[1]) * (MaxObj + 1) + a.F[2]

InitRank ==
    /\ variant = "v2"
    /\ df = <<>>
    /\ N = 0
    /\ pop = {}
    /\ n_iter = 0
    /\ terminated = FALSE
    /\ pc = "pool"
    /\ res = NoneX
    /\ report = NoReport
    /\ force_termination = FALSE
    /\ front = <<>>
    /\ cd = <<>>
    /\ tour = NoTour
    /\ callback_data = NoData
    /\ raw = <<>>
    /\ data = <<>>
    /\ model = "None"
    /\ returned = NoReturn
    /\ calls = <<>>
    /\ missing_files = {}
    /\ csv = <<>>
    /\ firestore = <<>>
    /\ uploaded = <<>>
    /\ config_written = FALSE

AddScored ==
    /\ pc = "pool"
    /\ Cardinality(pop) < MaxPool
    /\ \E F \in Rows(n_obj(variant)), cv \in {0, 1} :
          LET a == PoolMember(Cardinality(pop) + 1, F, cv)
          IN  /\ \A b \in pop : RankKey(b) <= RankKey(a)
              /\ pop' = pop \cup {a}
    /\ UNCHANGED <<variant, df, N, n_iter, terminated, pc, res, report,
                   force_termination, front, cd, tour, callback_data, raw,
                   data, model, returned, calls, missing_files, csv, firestore,
                   uploaded, config_written>>

Survive ==
    /\ pc = "pool"
    /\ pop # {}
    /\ \E n \in 1 .. Cardinality(pop) : pop' \in SurvivalDo(pop, n)
    /\ pc' = "ranked"
    /\ UNCHANGED <<variant, df, N, n_iter, terminated, res, report,
                   force_termination, front, cd, tour, callback_data, raw,
                   data, model, returned, calls, missing_files, csv, firestore,
                   uploaded, config_written>>

\* One tournament of the selection on the ranked population.
Tournament ==
    /\ pc = "ranked"
    /\ \E pr \in TournamentPairs(pop) :
          \E w \in binary_tournament(pr[1], pr[2]) :
              tour' = [held |-> TRUE, a |-> pr[1], b |-> pr[2], winner |-> w]
    /\ UNCHANGED <<variant, df, N, pop, n_iter, terminated, pc, res, report,
                   force_termination, front, cd, callback_data, raw, data,
                   model, returned, calls, missing_files, csv, firestore,
                   uploaded, config_written>>

NextRank == AddScored \/ Survive \/ Tournament

SpecRank == InitRank /\ [][NextRank]_vars

\* ------------------------------------------------------------- the evaluator alone
\* The problem built on a processed table, and _evaluate called on one vector
\* at a time.
InitEval ==
    /\ variant \in {"v2", "v3"}
    /\ df \in {ProcessData(records, d) : records \in RawTables, d \in BOOLEAN}
    /\ N \in 0 .. MaxTarget
    /\ pop = {}
    /\ n_iter = 0
    /\ terminated = FALSE
    /\ pc = "eval"
    /\ res = NoneX
    /\ report = NoReport
    /\ force_termination = FALSE
    /\ front = <<>>
    /\ cd = <<>>
    /\ tour = NoTour
    /\ callback_data = NoData
    /\ raw = <<>>
    /\ data = <<>>
    /\ model = "None"
    /\ returned = NoReturn
    /\ calls = <<>>
    /\ missing_files = {}
    /\ csv = <<>>
    /\ firestore = <<>>
    /\ uploaded = <<>>
    /\ config_written = FALSE

Score ==
    /\ pc = "eval"
    /\ \E x \in Candidates(df) : pop' = {Individual(x, df, N, variant)}
    /\ UNCHANGED <<variant, df, N, n_iter, terminated, pc, res, report,
                   force_termination, front, cd, tour, callback_data, raw,
                   data, model, returned, calls, missing_files, csv, firestore,
                   uploaded, config_written>>

NextEval == Score

SpecEval == InitEval /\ [][NextEval]_vars


\* ------------------------------------------------------------- the table builder alone
\* Section 1 of the scripts on its own: the records are read, then the table is
\* built.  A train has any set of job card statuses and any set of isClear
\* values on its Rolling-Stock certificates.
Statuses == {"Open", "In Progress", "Closed", "Pending Review"}

RawRecords ==
    {raw_table \in [1 .. MaxTrains ->
                      {RawUnit(cards, certs) : cards \in SUBSET Statuses,
                                               certs \in SUBSET BOOLEAN}] :
        /\ \E i \in DOMAIN raw_table : raw_table[i].cards # {}
        /\ \E i \in DOMAIN raw_table : raw_table[i].certs # {}}

InitBuild ==
    /\ variant \in {"v2", "v3"}
    /\ df = <<>>
    /\ N = 0
    /\ pop = {}
    /\ n_iter = 0
    /\ terminated = FALSE
    /\ pc = "load"
    /\ res = NoneX
    /\ report = NoReport
    /\ force_termination = FALSE
    /\ front = <<>>
    /\ cd = <<>>
    /\ tour = NoTour
    /\ callback_data = NoData
    /\ raw \in RawRecords
    /\ data = <<>>
    /\ model = "None"
    /\ returned = NoReturn
    /\ calls = <<>>
    /\ missing_files = {}
    /\ csv = <<>>
    /\ firestore = <<>>
    /\ uploaded = <<>>
    /\ config_written = FALSE

Build ==
    /\ pc = "load"
    /\ \E downcast \in BOOLEAN : df' = ProcessData(raw, downcast)
    /\ pc' = "built"
    /\ UNCHANGED <<variant, N, pop, n_iter, terminated, res, report,
                   force_termination, front, cd, tour, callback_data, raw,
                   data, model, returned, calls, missing_files, csv, firestore,
                   uploaded, config_written>>

NextBuild == Build

SpecBuild == InitBuild /\ [][NextBuild]_vars

\* ------------------------------------------------------------- the maintenance predictor
\* predMain1.py, class MaintenancePredictor.  The optimization scripts, the
\* predictor and the uploader are separate programs: while one runs, the
\* variables of the others keep their initial values.
engineVars == <<variant, df, N, pop, n_iter, terminated, res, report,
                force_termination, front, cd, tour, callback_data, raw>>
predictorVars == <<data, model, returned, calls>>
uploaderVars == <<missing_files, csv, firestore, uploaded, config_written>>

EngineIdle ==
    /\ variant = "v2"
    /\ df = <<>>
    /\ N = 0
    /\ pop = {}
    /\ n_iter = 0
    /\ terminated = FALSE
    /\ res = NoneX
    /\ report = NoReport
    /\ force_termination = FALSE
    /\ front = <<>>
    /\ cd = <<>>
    /\ tour = NoTour
    /\ callback_data = NoData
    /\ raw = <<>>

UploaderIdle ==
    /\ missing_files = {}
    /\ csv = <<>>
    /\ firestore = <<>>
    /\ uploaded = <<>>
    /\ config_written = FALSE

\* Rows per frame, calls per predictor and the range of predicted days, scaled
\* down.
MaxRows == 2
MaxCalls == 3
MaxDays == 2

\* A frame of maintenance records, as far as training looks at it: whether it
\* has the four date columns, how many rows have a completionDate that parses
\* and how many do not, and whether every feature column holds a date in some
\* row that has one (otherwise X.mean() is NaN in that column and
\* X.fillna(X.mean()) leaves NaN in X).
Frame(cols, dated, undated, feat) ==
    [columns |-> cols, dated |-> dated, undated |-> undated, features |-> feat]

Frames ==
    {Frame(c, d, u, f) : c \in BOOLEAN, d \in 0 .. MaxRows, u \in 0 .. MaxRows,
                         f \in BOOLEAN}

\* _preprocess_data: df[col] raises KeyError when a column is missing, before
\* anything is dropped; otherwise the rows without completionDate are dropped
\* from the frame itself (inplace=True).
preprocess_data(f) ==
    IF f.columns THEN [raises |-> FALSE, df |-> [f EXCEPT !.undated = 0]]
    ELSE [raises |-> TRUE, df |-> f]

\* LinearRegression.fit raises ValueError on a frame without rows and on NaN in X.
fit_raises(f) == f.dated = 0 \/ ~f.features

\* Whether the try block of train_model raises on the frame f.
training_raises(f) == preprocess_data(f).raises \/ fit_raises(preprocess_data(f).df)

\* A training that leaves the model as it was when it fails.
TrainedModelKept(f, old) == IF training_raises(f) THEN old ELSE "LinearRegression"

\* self.model after train_model: the fitted LinearRegression, or None when
\* anything in the try block raised.
TrainedModel(f, old) == IF training_raises(f) THEN "None" ELSE "LinearRegression"

\* The dicts handed to predict_next_maintenance: with the three date keys and
\* dates that parse; with a key missing (KeyError on new_df[col]); with a date
\* that does not parse (NaT, then NaN days, and predict raises ValueError).
NewData == {"complete", "missing key", "bad date"}

\* A returned date, in days after reference_date.
Date(days) == [kind |-> "date", days |-> days]
ReturnedNone == [kind |-> "None"]
Raised == [kind |-> "raised"]
Dates == {Date(d) : d \in 0 .. MaxDays}

\* A prediction that lets the exception of the try block out.
PredictionsUnguarded(m, new_data) ==
    IF m = "None" THEN {ReturnedNone}
    ELSE IF new_data = "complete" THEN Dates \cup {Raised}
    ELSE {Raised}

\* What predict_next_maintenance can return.  With a fitted model and a
\* complete dict the days come from the fitted coefficients; int() of a
\* prediction that is not finite and a date past year 9999 raise inside the try
\* block, and None is returned.
Predictions(m, new_data) ==
    IF m = "None" THEN {ReturnedNone}
    ELSE IF new_data = "complete" THEN Dates \cup {ReturnedNone}
    ELSE {ReturnedNone}

InitPredictor ==
    /\ EngineIdle
    /\ UploaderIdle
    /\ pc = "predictor"
    /\ data \in Frames
    /\ model = "None"
    /\ returned = NoReturn
    /\ calls = <<>>

\* train_model.  The frame is the caller's object: f is its content when the
\* call is made.
train_model ==
    /\ pc = "predictor"
    /\ Len(calls) < MaxCalls
    /\ \E f \in Frames :
          /\ data' = preprocess_data(f).df
          /\ model' = TrainedModel(f, model)
          /\ calls' = Append(calls, [op |-> "train_model", ok |-> ~training_raises(f)])
    /\ UNCHANGED <<engineVars, pc, returned, uploaderVars>>

predict_next_maintenance ==
    /\ pc = "predictor"
    /\ Len(calls) < MaxCalls
    /\ \E new_data \in NewData :
          \E r \in Predictions(model, new_data) :
              /\ returned' = r
              /\ calls' = Append(calls, [op |-> "predict_next_maintenance",
                                         ok |-> r \in Dates])
    /\ UNCHANGED <<engineVars, pc, data, model, uploaderVars>>

NextPredictor == train_model \/ predict_next_maintenance

SpecPredictor == InitPredictor /\ [][NextPredictor]_vars

\* ------------------------------------------------------------- the uploader
\* firebase_uploader.py: main and FirebaseUploader.upload_all_data.
\* Rows per CSV file, scaled down.
MaxDocs == 1

\* The collections, in the order of the calls in upload_all_data.
Collections ==
    <<"users", "trainsets", "health_and_maintenance", "branding_priorities",
      "stabling_bays", "cleaning_slots">>

CollectionNames == {Collections[i] : i \in DOMAIN Collections}

required_files == {"firebase-service-account.json"} \cup CollectionNames

PredictorIdle ==
    /\ data = <<>>
    /\ model = "None"
    /\ returned = NoReturn
    /\ calls = <<>>

\* main is started with all required files in place or with one of them
\* missing.
InitUploader ==
    /\ EngineIdle
    /\ PredictorIdle
    /\ pc = "main"
    /\ missing_files \in {{}} \cup {{f} : f \in required_files}
    /\ csv \in [CollectionNames -> 0 .. MaxDocs]
    /\ firestore = [c \in CollectionNames |-> 0]
    /\ uploaded = <<>>
    /\ config_written = FALSE

\* main, lines 284-300: return when a required file is missing.
check_files ==
    /\ pc = "main"
    /\ pc' = IF missing_files # {} THEN "returned" ELSE "connect"
    /\ UNCHANGED <<engineVars, predictorVars, uploaderVars>>

\* An except clause that swallows the exception: upload_all_data returns None
\* and main goes on.
except_pass == "write_config"

\* except Exception as e: print(...); raise.  main has no handler, so the
\* exception leaves main.
except_raise == "raised"

\* FirebaseUploader.__init__: the connection is made, or the exception is
\* printed and raised again.
connect ==
    /\ pc = "connect"
    /\ pc' \in {"upload_users", "raised"}
    /\ UNCHANGED <<engineVars, predictorVars, uploaderVars>>

\* One upload method, entered at `at`: it writes a document per row of its CSV
\* file and upload_all_data goes on to `next`, or it raises (read_csv, a
\* conversion or a write) after some of the rows were written, and the except
\* clause of upload_all_data takes over.
Upload(at, c, next) ==
    /\ pc = at
    /\ uploaded' = Append(uploaded, c)
    /\ \/ /\ firestore' = [firestore EXCEPT ![c] = csv[c]]
          /\ pc' = next
       \/ \E k \in 0 .. (IF csv[c] = 0 THEN 0 ELSE csv[c] - 1) :
             /\ firestore' = [firestore EXCEPT ![c] = k]
             /\ pc' = except_raise
    /\ UNCHANGED <<engineVars, predictorVars, missing_files, csv, config_written>>

upload_users == Upload("upload_users", "users", "upload_trainsets")

upload_trainsets == Upload("upload_trainsets", "trainsets", "upload_health_maintenance")

upload_health_maintenance ==
    Upload("upload_health_maintenance", "health_and_maintenance",
           "upload_branding_priorities")

upload_branding_priorities ==
    Upload("upload_branding_priorities", "branding_priorities", "upload_stabling_bays")

upload_stabling_bays == Upload("upload_stabling_bays", "stabling_bays", "upload_cleaning_slots")

upload_cleaning_slots == Upload("upload_cleaning_slots", "cleaning_slots", "write_config")

\* main, lines 306-311: the configuration is written to firebase_config.py.
write_config ==
    /\ pc = "write_config"
    /\ config_written' = TRUE
    /\ pc' = "done"
    /\ UNCHANGED <<engineVars, predictorVars, missing_files, csv, firestore, uploaded>>

NextUploader ==
    \/ check_files
    \/ connect
    \/ upload_users
    \/ upload_trainsets
    \/ upload_health_maintenance
    \/ upload_branding_priorities
    \/ upload_stabling_bays
    \/ upload_cleaning_slots
    \/ write_config

SpecUploader == InitUploader /\ [][NextUploader]_vars

\* ------------------------------------------------------------- claims
Started == pc # "setup" /\ pc # "front"

RowOf(id) == CHOOSE i \in DOMAIN df : df[i].trainsetId = id

\* A finished run in which no duplicate was ever eliminated: the population is
\* full and the run used its whole budget.
OrdinaryEnd == pc = "done" /\ ~force_termination /\ Cardinality(pop) = PopSize

\* C1 (as claimed): every plan the script prints comes from an individual of the
\* final population with rank 0 and an all-zero constraint vector, lists exactly
\* N_TO_SELECT trains, and lists no train with an open job card or without a
\* valid certificate.  (Stated for runs that end ordinarily.)
C1_PlansFeasibleExact ==
    OrdinaryEnd =>
        \A p \in report.plans :
            /\ \E a \in pop : a.X = p.X /\ a.rank = 0 /\ a.G = <<0, 0, 0>>
            /\ Cardinality(p.ids) = N
            /\ \A id \in p.ids : /\ ~df[RowOf(id)].job_card_open
                                 /\ df[RowOf(id)].fitness_certificate_valid

\* C2 (as claimed): when the final population holds no feasible rank-0
\* individual the script ends with an empty result and the explicit message,
\* never with an unhandled error, and never prints an infeasible individual.
\* (Stated for runs that end ordinarily.)
C2_InfeasibleReported ==
    OrdinaryEnd =>
        /\ report.status # "TypeError"
        /\ (~\E a \in pop : Feasible(a) /\ a.rank = 0)
              => report.status = "no valid solution" /\ report.plans = {}
        /\ \A p \in report.plans : \E a \in pop : a.X = p.X /\ Feasible(a)

C4_LengthIsN ==
    /\ \A a \in pop : Len(a.X) = n_var(df)
    /\ pc = "setup" => \A S \in Sampling(df) : \A x \in S : Len(x) = n_var(df)
    /\ pc = "running" => \A x \in Children(pop) : Len(x) = n_var(df)

C4_Witness == pc = "running" /\ n_iter >= 3 /\ pop # {}

\* C5: constrained dominance is irreflexive and asymmetric over all scored
\* candidates of the run, feasible or not.
Scored == {Individual(x, df, N, variant) : x \in Candidates(df)}

C5_StrictOrder ==
    \A a \in Scored \cup pop, b \in Scored \cup pop :
        /\ ~ConstrDominates(a, a)
        /\ ConstrDominates(a, b) => ~ConstrDominates(b, a)

C5_Witness ==
    /\ pc = "running"
    /\ \E a \in pop, b \in pop : Feasible(a) /\ Feasible(b) /\ ConstrDominates(a, b)
    /\ \E a \in Scored, b \in Scored :
          ~Feasible(a) /\ ~Feasible(b) /\ ConstrDominates(a, b)

Dominated(a, P) == \E b \in P : ConstrDominates(b, a)

\* C6 (as claimed): after ranking, rank 0 holds exactly the individuals that no
\* individual of the population constraint-dominates.
C6_FrontZeroExact ==
    Started => {a \in pop : a.rank = 0} = {a \in pop : ~Dominated(a, pop)}

\* C6 (amended): no individual of rank 0 is constraint-dominated by an
\* individual of the population, and when the population holds a feasible
\* individual, rank 0 holds exactly the non-dominated individuals (a population
\* without a feasible individual is not ranked at all).
C6_FrontZero ==
    Started =>
        /\ \A a \in pop : a.rank = 0 => ~Dominated(a, pop)
        /\ (\E a \in pop : Feasible(a))
              => {a \in pop : a.rank = 0} = {a \in pop : ~Dominated(a, pop)}

C6_Witness ==
    /\ pc = "running"
    /\ \E a \in pop, b \in pop : a.rank = 0 /\ b.rank = 1 /\ ConstrDominates(a, b)

\* Whether row i of the front holds the least or the greatest value of
\* objective j, and whether it is alone in holding it.
HoldsExtreme(Fs, i, j) ==
    \/ \A k \in DOMAIN Fs : Fs[i][j] <= Fs[k][j]
    \/ \A k \in DOMAIN Fs : Fs[i][j] >= Fs[k][j]

HoldsExtremeAlone(Fs, i, j) ==
    \/ \A k \in DOMAIN Fs : k # i => Fs[i][j] < Fs[k][j]
    \/ \A k \in DOMAIN Fs : k # i => Fs[i][j] > Fs[k][j]

FiniteNonNeg(c) == ~IsInf(c) /\ c[1] >= 0 /\ c[2] > 0

\* C7 (as claimed): in a front, every member that holds the minimum or the
\* maximum of some objective has infinite crowding distance, and every other
\* member a finite, non-negative one.
C7_BoundaryInfinite ==
    cd # <<>> =>
        \A i \in DOMAIN front :
            IF \E j \in DOMAIN front[i] : HoldsExtreme(front, i, j)
            THEN IsInf(cd[i])
            ELSE FiniteNonNeg(cd[i])

\* C7 (amended): in a front of one or two members every distance is infinite.
\* In a larger front every distance is infinite or finite and non-negative; a
\* member that alone holds the minimum or the maximum of some objective has
\* infinite distance; a member that holds no objective's minimum or maximum has
\* a finite distance; and when every objective has zero range all distances
\* are 0.
C7_Crowding ==
    cd # <<>> =>
        /\ Len(front) <= 2 => \A i \in DOMAIN front : IsInf(cd[i])
        /\ \A i \in DOMAIN front :
              /\ IsInf(cd[i]) \/ FiniteNonNeg(cd[i])
              /\ (\E j \in DOMAIN front[i] : HoldsExtremeAlone(front, i, j)) => IsInf(cd[i])
              /\ (Len(front) >= 3 /\ ~\E j \in DOMAIN front[i] : HoldsExtreme(front, i, j))
                    => FiniteNonNeg(cd[i])
        /\ (Len(front) >= 3 /\ \A i \in DOMAIN front : front[i] = front[1])
              => \A i \in DOMAIN front : cd[i] = <<0, 1>>

C7_Witness ==
    /\ cd # <<>>
    /\ Len(front) = 3
    /\ \E i \in DOMAIN front : FiniteNonNeg(cd[i]) /\ cd[i][1] > 0
    /\ \E i \in DOMAIN front : IsInf(cd[i])

GenDone == IF n_iter = 0 THEN 0 ELSE n_iter - 1

\* C10 (as claimed): the run is over only when the generation counter equals
\* n_max_gen; it never stops earlier.
C10_StopsOnlyAtBudget == terminated => GenDone = NGen

\* C10 (amended): every run terminates and stays terminated; the count of
\* completed generations starts at 0, grows by one per generation and never
\* exceeds n_max_gen; the run stops when the count reaches n_max_gen, or
\* earlier only when mating returned no new offspring.
C10_Terminates ==
    /\ <>(pc = "done")
    /\ [](GenDone <= NGen)
    /\ [](terminated <=> (GenDone = NGen \/ force_termination))
    /\ [](pc \in {"finished", "result", "done"} <=> terminated)
    /\ [][terminated => terminated' /\ pop' = pop /\ n_iter' = n_iter]_vars
    /\ [][GenDone' = GenDone \/ GenDone' = GenDone + 1]_vars

C10_Witness == pc = "done" /\ GenDone = NGen /\ ~force_termination

\* C11 (as claimed): every entry of every constraint row the evaluator
\* produces is >= 0, for every vector and every processed table, tables with
\* filled-in job card or certificate flags included.
C11_ConstraintsNonNeg ==
    \A a \in pop : \A k \in DOMAIN a.G : a.G[k] >= 0

\* The vector that selects nothing.
ZeroX == [i \in 1 .. n_var(df) |-> 0]

\* C12: with N_TO_SELECT = 0 the all-zero vector is the only feasible
\* candidate, its first objective is 0, it constraint-dominates every other
\* candidate, and a result that is reported consists of exactly that one plan,
\* with no train listed.
C12_TargetZero ==
    N = 0 =>
        /\ \A a \in Scored \cup pop :
              /\ Feasible(a) <=> a.X = ZeroX
              /\ a.X = ZeroX => a.F[1] = 0 /\ a.G = <<0, 0, 0>>
              /\ a.X # ZeroX => ConstrDominates(Individual(ZeroX, df, N, variant), a)
        /\ \A p \in report.plans : p.X = ZeroX /\ p.ids = {}
        /\ report.status = "solutions" => Cardinality(report.plans) = 1

C12_Witness ==
    /\ pc = "done" /\ N = 0 /\ report.status = "solutions"
    /\ \E p \in report.plans : p.X = ZeroX
    /\ Cardinality(pop) = PopSize

\* Every train of the table has an open job card.
AllOpen == df # <<>> /\ \A i \in DOMAIN df : df[i].job_card_open

C14_TiesShareFront ==
    \A a \in pop, b \in pop :
        (Feasible(a) /\ Feasible(b) /\ a.F = b.F) =>
            /\ ~ParetoDominates(a.F, b.F)
            /\ ~ConstrDominates(a, b)
            /\ pc = "ranked" => (a.rank = 0 <=> b.rank = 0)

C14_Witness ==
    /\ pc = "ranked"
    /\ \E a \in pop, b \in pop :
          /\ a # b /\ Feasible(a) /\ Feasible(b) /\ a.F = b.F
          /\ a.rank = 0 /\ b.rank = 0
    /\ \E c \in pop : c.rank = 1

\* C15 (as claimed): with an empty train table the script stops before the
\* initial population is created: no population exists, no generation is
\* counted and the run is never in progress with n_var = 0.
C15_FailsFastOnEmpty ==
    n_var(df) = 0 => pop = {} /\ n_iter = 0 /\ pc = "setup"

\* C16 (as claimed): with N_TO_SELECT outside 0 .. n_var the run starts, g1
\* is positive for every candidate, and a run that uses its whole budget ends
\* with the no-valid-solution message and nothing else.
C16_OutOfRangeTarget ==
    N \notin 0 .. n_var(df) =>
        /\ \A a \in Scored \cup pop : a.G[1] > 0
        /\ (pc = "done" /\ ~force_termination) =>
              /\ GenDone = NGen
              /\ report.status = "no valid solution"
              /\ report.plans = {}

\* The sum of a column over the rows in sel.
SumRows(sel, col) == SumSeq([i \in DOMAIN col |-> IF i \in sel THEN col[i] ELSE 0])

PunctualityColumn == [i \in DOMAIN df |-> punctuality_score(df, i)]
BrandingColumn == [i \in DOMAIN df |-> df[i].branding_priority_score]

\* C17 (as claimed): every printed plan lists exactly the trains whose entry
\* in the plan's vector is 1, and the printed values agree with the list: the
\* mileage is the sum of the listed trains' mileage, the punctuality
\* (100 - f2) is the mean of their punctuality_score, and the branding (-f3)
\* is the sum of their branding_priority_score.  (Stated for runs that end
\* ordinarily.)
C17_ReportConsistent ==
    OrdinaryEnd =>
        \A p \in report.plans :
            LET listed == {i \in DOMAIN df : df[i].trainsetId \in p.ids}
                lcm    == LcmUpTo(n_var(df) * Res)
                punct  == 100 * 100 * lcm - p.F[2]
            IN  /\ listed = {i \in DOMAIN p.X : p.X[i] = Res}
                /\ p.F[1] = Res * SumRows(listed, Mileages(df))
                /\ punct * Cardinality(listed) = lcm * SumRows(listed, PunctualityColumn)
                /\ variant = "v3" =>
                      0 - p.F[3] = Res * SumRows(listed, BrandingColumn)

\* A vector of zeros and ones, and the trains it selects.
Bits(x) == \A i \in DOMAIN x : x[i] \in {0, Res}
Selected(x) == {i \in DOMAIN x : x[i] = Res}

\* C18 (as claimed): for every vector of zeros and ones the constraint row is
\* ((selected count - N_TO_SELECT)^2, number of selected trains with an open job
\* card, number of selected trains without a valid certificate), hence
\* (0, 0, 0) exactly when N_TO_SELECT trains are selected, none with an open
\* job card and none without a valid certificate; in the scenario of five
\* trains with target 2, selecting A and B gives (0, 0, 0) and f1 = 150.
C18_ConstraintFormula ==
    \A a \in pop :
        Bits(a.X) =>
            LET sel     == Selected(a.X)
                open    == {i \in sel : df[i].job_card_open}
                invalid == {i \in sel : ~df[i].fitness_certificate_valid}
                d       == Cardinality(sel) - N
            IN  /\ a.G = <<Res * Res * d * d, Res * Cardinality(open),
                           Res * Cardinality(invalid)>>
                /\ a.G = <<0, 0, 0>> <=> (d = 0 /\ open = {} /\ invalid = {})
                /\ (df = ProcessData(RawScenario, TRUE) /\ N = 2 /\ sel = {1, 2})
                      => a.G = <<0, 0, 0>> /\ a.F[1] = Res * 150

\* The sum of a column weighted by the entries of x, taken gene value by gene
\* value.
ByGene(x, col) ==
    SumSeq([k \in 1 .. Res |-> k * SumRows({i \in DOMAIN x : x[i] = k}, col)])

\* C19: the objective row has two entries in v2 and three in v3.  For every
\* vector of zeros and ones it is (sum of mileage over the selected trains,
\* 100 - mean punctuality_score over the selected trains, taken as 100 when
\* none is selected, minus the sum of branding_priority_score over the
\* selected trains).  For every vector the sums are the sums weighted by the
\* entries, and f2 is 100 when all entries are 0.
C19_ObjectiveFormula ==
    \A a \in pop :
        LET lcm   == LcmUpTo(n_var(df) * Res)
            total == ByGene(a.X, [i \in DOMAIN df |-> 1])
            punct == 100 * 100 * lcm - a.F[2]
            sel   == Selected(a.X)
        IN  /\ Len(a.F) = IF variant = "v3" THEN 3 ELSE 2
            /\ a.F[1] = ByGene(a.X, Mileages(df))
            /\ IF total = 0 THEN punct = 0
               ELSE punct * total = lcm * ByGene(a.X, PunctualityColumn)
            /\ variant = "v3" => a.F[3] = 0 - ByGene(a.X, BrandingColumn)
            /\ Bits(a.X) =>
                  /\ a.F[1] = Res * SumRows(sel, Mileages(df))
                  /\ IF sel = {} THEN a.F[2] = 100 * 100 * lcm
                     ELSE punct * Cardinality(sel) = lcm * SumRows(sel, PunctualityColumn)
                  /\ variant = "v3" => 0 - a.F[3] = Res * SumRows(sel, BrandingColumn)

C19_Witness ==
    /\ pc = "eval" /\ variant = "v3" /\ df = ProcessData(RawScenario, TRUE)
    /\ \E a \in pop : Bits(a.X) /\ Cardinality(Selected(a.X)) = 2 /\ a.F[3] < 0

\* C20: of two scored candidates of which exactly one is feasible, the feasible
\* one constraint-dominates the other whatever their objectives are; and in a
\* population that holds a feasible individual no infeasible one has rank 0.
C20_FeasibleFirst ==
    /\ \A a \in Scored \cup pop, b \in Scored \cup pop :
          (Feasible(a) /\ ~Feasible(b)) =>
              ConstrDominates(a, b) /\ ~ConstrDominates(b, a)
    /\ (\E a \in pop : Feasible(a)) =>
          \A b \in pop : ~Feasible(b) => b.rank # 0

C20_Witness ==
    /\ pc = "running"
    /\ \E a \in pop, b \in pop :
          /\ Feasible(a) /\ a.rank = 0
          /\ ~Feasible(b) /\ ParetoDominates(b.F, a.F)

\* The candidates an evaluated vector is compared with: every scored candidate
\* of the table (of the population alone for the table of the scenario).
Peers == IF n_var(df) <= MaxTrains THEN Scored ELSE pop

\* The sum of the entries of a constraint row and the sum of their positive
\* parts, both in units of 1/Res^2.
SumG(a) == a.G[1] + Res * a.G[2] + Res * a.G[3]
PosSumG(a) ==
    SumSeq([k \in 1 .. 3 |-> IF a.G[k] > 0 THEN (IF k = 1 THEN 1 ELSE Res) * a.G[k] ELSE 0])

RanksOf(P) == {a.rank : a \in P}

\* C22 (as claimed): after ranking every individual has a rank; the ranks are
\* 0, 1, 2, ... without a gap; an individual of rank k > 0 is dominated by one
\* of rank k - 1; and no individual is dominated by one of equal or higher rank.
C22_RanksComplete ==
    pc = "ranked" =>
        /\ \A a \in pop : a.rank >= 0
        /\ \A k \in RanksOf(pop) : k > 0 => (k - 1) \in RanksOf(pop)
        /\ \A a \in pop : a.rank > 0 =>
              \E b \in pop : b.rank = a.rank - 1 /\ ConstrDominates(b, a)
        /\ \A a \in pop, b \in pop : b.rank >= a.rank => ~ConstrDominates(b, a)

\* C22 (amended): after ranking every feasible individual has exactly one
\* rank and an infeasible one has none; the ranks of the feasible ones are
\* 0, 1, 2, ... without a gap; a feasible individual of rank k > 0 is dominated
\* by one of rank k - 1; no feasible individual is dominated by a feasible one
\* of equal or higher rank, nor by an infeasible one.
C22_FeasibleRanks ==
    pc = "ranked" =>
        LET feas == {a \in pop : Feasible(a)}
        IN  /\ \A a \in feas : a.rank >= 0
            /\ \A a \in pop \ feas : a.rank = NoRank
            /\ \A k \in RanksOf(feas) : k > 0 => (k - 1) \in RanksOf(feas)
            /\ \A a \in feas : a.rank > 0 =>
                  \E b \in feas : b.rank = a.rank - 1 /\ ConstrDominates(b, a)
            /\ \A a \in feas, b \in feas : b.rank >= a.rank => ~ConstrDominates(b, a)
            /\ \A a \in feas, b \in pop \ feas : ~ConstrDominates(b, a)

C22_Witness ==
    /\ pc = "ranked"
    /\ \E a \in pop, b \in pop, c \in pop :
          a.rank = 0 /\ b.rank = 1 /\ ~Feasible(c) /\ c.rank = NoRank

\* The index of the front of a in the pool S under constrained dominance,
\* counted from k.
RECURSIVE ConstrFrontIndex(_, _, _)
ConstrFrontIndex(a, S, k) ==
    LET first == {x \in S : ~\E y \in S : ConstrDominates(y, x)}
    IN  IF a \in first THEN k ELSE ConstrFrontIndex(a, S \ first, k + 1)

\* The members of the front fr that are kept are those of the largest crowding
\* distance, for some order in which the front is listed.
CrowdingRespected(fr, kept) ==
    \E o \in Orderings(fr) :
        LET dist == calc_crowding_distance([i \in DOMAIN o |-> o[i].F])
        IN  \A i \in DOMAIN o, j \in DOMAIN o :
                (o[i] \in kept /\ o[j] \notin kept) => ~CdGreater(dist[j], dist[i])

\* The fronts of the pool of which some member is kept and some is not.
SplitFronts(pool, kept) ==
    {fr \in {{b \in pool : ConstrFrontIndex(b, pool, 0) = ConstrFrontIndex(a, pool, 0)} : a \in pool} :
        fr \cap kept # {} /\ fr \ kept # {}}

\* C23 (as claimed): the survival keeps the fronts in rank order, and of the
\* front that does not fit the members of largest crowding distance: no
\* discarded individual is in an earlier front than a surviving one, and in
\* the split front no discarded member has a larger crowding distance than a
\* surviving one.
C23_KeepsBestFronts ==
    [][(pc = "pool" /\ pc' = "ranked") =>
          LET kept == {a \in pop : a.X \in XsOf(pop')}
          IN  /\ \A d \in pop \ kept, k \in kept :
                    ConstrFrontIndex(d, pop, 0) >= ConstrFrontIndex(k, pop, 0)
              /\ \A fr \in SplitFronts(pop, kept) : CrowdingRespected(fr, kept)]_vars

\* C23 (amended): the survivors are members of the pool; no discarded
\* individual is in an earlier front than a surviving one (a feasible one is
\* never discarded while an infeasible one survives, and a discarded infeasible
\* one has no smaller constraint violation than a surviving one); and when the
\* split front is one of feasible individuals, no discarded member has a
\* larger crowding distance than a surviving one.  Among infeasible
\* individuals of equal constraint violation the choice is arbitrary.
C23_KeepsBestFeasibleFronts ==
    [][(pc = "pool" /\ pc' = "ranked") =>
          LET kept == {a \in pop : a.X \in XsOf(pop')}
          IN  /\ XsOf(pop') \subseteq XsOf(pop) /\ pop' # {}
              /\ \A d \in pop \ kept, k \in kept :
                    /\ ConstrFrontIndex(d, pop, 0) >= ConstrFrontIndex(k, pop, 0)
                    /\ Feasible(d) => Feasible(k)
                    /\ d.CV >= k.CV
              /\ \A fr \in SplitFronts(pop, kept) :
                    (\A a \in fr : Feasible(a)) => CrowdingRespected(fr, kept)]_vars

C23_Witness ==
    /\ pc = "ranked"
    /\ XsOf(pop) = {<<2>>, <<3>>}
    /\ \A a \in pop : a.rank = 0

\* The competitor of the tournament last held that did not win.
Loser == IF tour.winner = tour.a THEN tour.b ELSE tour.a

\* C24 (as claimed): the tournament returns one of two individuals of the
\* population, the one of lower rank, or with equal ranks the one of higher
\* crowding distance.  (Stated for two feasible competitors.)
C24_LowerRankWins ==
    (tour.held /\ Feasible(tour.a) /\ Feasible(tour.b)) =>
        /\ tour.a \in pop /\ tour.b \in pop /\ tour.winner \in pop
        /\ tour.a.rank < tour.b.rank => tour.winner = tour.a
        /\ tour.b.rank < tour.a.rank => tour.winner = tour.b
        /\ tour.a.rank = tour.b.rank => ~CdGreater(Loser.crowding, tour.winner.crowding)

\* C24 (amended): the tournament returns one of its two competitors, both
\* individuals of the population and distinct unless the population has odd
\* size.  If either is infeasible the winner has the smaller or equal
\* constraint violation.  If both are feasible and one Pareto-dominates the
\* other, the dominating one wins (it has the lower rank); otherwise the winner
\* has the larger or equal crowding distance, whatever the ranks.
C24_DominanceThenCrowding ==
    tour.held =>
        /\ tour.a \in pop /\ tour.b \in pop
        /\ tour.winner \in {tour.a, tour.b}
        /\ tour.a = tour.b => Cardinality(pop) % 2 = 1
        /\ IF ~Feasible(tour.a) \/ ~Feasible(tour.b)
           THEN tour.winner.CV <= Loser.CV
           ELSE IF ParetoDominates(tour.a.F, tour.b.F)
                THEN tour.winner = tour.a /\ tour.a.rank < tour.b.rank
                ELSE IF ParetoDominates(tour.b.F, tour.a.F)
                     THEN tour.winner = tour.b /\ tour.b.rank < tour.a.rank
                     ELSE ~CdGreater(Loser.crowding, tour.winner.crowding)

C24_Witness ==
    /\ tour.held /\ Feasible(tour.a) /\ Feasible(tour.b)
    /\ tour.winner.rank > Loser.rank

C26_BitStrings ==
    /\ \A a \in pop : Bits(a.X)
    /\ pc = "setup" => \A S \in Sampling(df) : \A x \in S : Bits(x)
    /\ pc = "running" => \A x \in Children(pop) : Bits(x)

\* C27: once the population holds a feasible individual, the population after
\* every later generation holds one too, and the run then ends with a result
\* that is not None and not empty, which the script prints as solutions.
C27_FeasibilityKept ==
    /\ [][(\E a \in pop : Feasible(a)) => (\E a \in pop' : Feasible(a))]_vars
    /\ [](/\ pc \in {"result", "done"}
          /\ \E a \in pop : Feasible(a)
          => /\ res # NoneX
             /\ res.opt # {}
             /\ \A a \in res.opt : Feasible(a)
             /\ pc = "done" => report.status = "solutions" /\ report.plans # {})

\* A run that bred offspring next to a feasible parent, among them an
\* infeasible one that survived, and ended with solutions.
C27_Witness ==
    /\ pc = "done"
    /\ callback_data.len >= 2
    /\ \E a \in pop : Feasible(a)
    /\ \E a \in pop : ~Feasible(a)
    /\ report.status = "solutions"

\* C28: in the table that is built, a train's job_card_open is true exactly
\* when one of its job cards has status 'Open' or 'In Progress' (so a train
\* with no card, or with 'Closed' and 'Pending Review' cards only, is not
\* flagged), and its fitness_certificate_valid is true exactly when it has a
\* Rolling-Stock certificate and every one of them is clear (so a train with
\* none is invalid).  The table has one row per train, in the trains' order.
C28_FlagsFromRecords ==
    pc = "built" =>
        /\ DOMAIN df = DOMAIN raw
        /\ \A i \in DOMAIN raw :
              /\ df[i].trainsetId = Ids[i]
              /\ df[i].job_card_open = TRUE
                    <=> ("Open" \in raw[i].cards \/ "In Progress" \in raw[i].cards)
              /\ raw[i].cards \subseteq {"Closed", "Pending Review"}
                    => df[i].job_card_open = FALSE
              /\ df[i].fitness_certificate_valid = TRUE
                    <=> (raw[i].certs # {} /\ FALSE \notin raw[i].certs)
              /\ raw[i].certs = {} => df[i].fitness_certificate_valid = FALSE
              /\ df[i].job_card_open \in BOOLEAN
              /\ df[i].fitness_certificate_valid \in BOOLEAN

\* A table built for a train with a card in progress next to a closed one and
\* clear certificates, and a train with a card pending review and no
\* Rolling-Stock certificate.
C28_Witness ==
    /\ pc = "built"
    /\ raw[1] = RawUnit({"In Progress", "Closed"}, {TRUE})
    /\ raw[2] = RawUnit({"Pending Review"}, {})
    /\ df[1].job_card_open /\ df[1].fitness_certificate_valid
    /\ ~df[2].job_card_open /\ ~df[2].fitness_certificate_valid

\* The outcome of the most recent train_model call before call number k:
\* "never" when there is none.
LastTraining(k) ==
    IF \E j \in 1 .. (k - 1) : calls[j].op = "train_model"
    THEN LET j == CHOOSE i \in 1 .. (k - 1) :
                     /\ calls[i].op = "train_model"
                     /\ \A h \in (i + 1) .. (k - 1) : calls[h].op # "train_model"
         IN  IF calls[j].ok THEN "ok" ELSE "failed"
    ELSE "never"

\* C29: in any sequence of calls, a predict_next_maintenance call returns a
\* date only if the most recent train_model call before it completed without
\* error; with no training before it, or after a training that failed (an
\* earlier one may have succeeded), it returns None; and every prediction
\* returns a date or None, none raises.
C29_PredictsOnlyWhenTrained ==
    /\ returned \in Dates \cup {ReturnedNone, NoReturn}
    /\ returned = NoReturn <=> ~\E k \in DOMAIN calls : calls[k].op = "predict_next_maintenance"
    /\ \A k \in DOMAIN calls :
          calls[k].op = "predict_next_maintenance" =>
              /\ calls[k].ok => LastTraining(k) = "ok"
              /\ LastTraining(k) \in {"never", "failed"} => ~calls[k].ok
    /\ (calls # <<>> /\ calls[Len(calls)].op = "predict_next_maintenance") =>
          /\ calls[Len(calls)].ok <=> returned \in Dates
          /\ ~calls[Len(calls)].ok <=> returned = ReturnedNone
    /\ model = "None" <=> LastTraining(Len(calls) + 1) \in {"never", "failed"}

\* A training that succeeded, one that failed after it, and a prediction that
\* then returned None.
C29_Witness ==
    /\ Len(calls) = 3
    /\ calls[1] = [op |-> "train_model", ok |-> TRUE]
    /\ calls[2] = [op |-> "train_model", ok |-> FALSE]
    /\ calls[3].op = "predict_next_maintenance"
    /\ returned = ReturnedNone

\* The collections entered so far are the first ones of the fixed order.
InOrder ==
    /\ Len(uploaded) <= Len(Collections)
    /\ \A i \in DOMAIN uploaded : uploaded[i] = Collections[i]

Entered(c) == \E i \in DOMAIN uploaded : uploaded[i] = c

\* C30: the collections are uploaded in the order users, trainsets,
\* health_and_maintenance, branding_priorities, stabling_bays, cleaning_slots,
\* each after the one before it is complete; once a step has raised nothing is
\* written to any later collection, the exception leaves main, and
\* firebase_config.py is never written; the file is written only after all
\* six uploads have completed.
C30_OrderedAllOrNothing ==
    /\ [](/\ InOrder
          /\ \A i \in DOMAIN uploaded :
                i < Len(uploaded) => firestore[uploaded[i]] = csv[uploaded[i]]
          /\ \A c \in CollectionNames : ~Entered(c) => firestore[c] = 0
          /\ pc = "raised" => ~config_written
          /\ config_written =>
                /\ uploaded = Collections
                /\ \A c \in CollectionNames : firestore[c] = csv[c]
          /\ \A i \in DOMAIN uploaded :
                firestore[uploaded[i]] < csv[uploaded[i]] =>
                    i = Len(uploaded) /\ pc = "raised")
    /\ [][pc = "raised" =>
            pc' = "raised" /\ UNCHANGED <<firestore, uploaded, config_written>>]_vars
    /\ [][config_written' /\ ~config_written =>
            pc = "write_config" /\ uploaded = Collections]_vars

\* The third upload raised after the first two went through in full.
C30_Witness ==
    /\ pc = "raised"
    /\ uploaded = <<"users", "trainsets", "health_and_maintenance">>
    /\ csv["users"] = 1 /\ firestore["users"] = 1
    /\ csv["health_and_maintenance"] = 1 /\ firestore["health_and_maintenance"] = 0
    /\ ~config_written

=============================================================================
